---- MODULE Spec2Model ----
(***************************************************************************)
(* Model of lib/gamejs/display.js: the display Surface singleton, the DOM  *)
(* elements the module looks up or creates (canvas, fullscreen toggle,     *)
(* wrapper), and the fullscreen-change handler.                            *)
(*                                                                         *)
(* The document is a sequence of elements; an element is referred to by    *)
(* its index in that sequence, 0 stands for document.body as a parent and  *)
(* for null as the result of a lookup.  The module never removes an        *)
(* element, so indices are stable.                                         *)
(***************************************************************************)
EXTENDS Integers, Sequences, FiniteSets, TLC

VARIABLES
    dom,                  \* the document's elements below body
    activeElement,        \* document.activeElement (0 = body)
    title,                \* document.title
    SURFACE,              \* <<>> for null, else <<the Surface object>>
    SURFACE_SMOOTHING,    \* _SURFACE_SMOOTHING
    oldWrapperTextAlign,  \* NULL or a string
    platform,             \* what the browser exposes (fixed)
    fullScreen,           \* whether the browser is in fullscreen
    pending,              \* fullscreen-change events queued for dispatch
    clickListeners,       \* click listeners registered on the toggle
    changeListeners,      \* event names fullScreenChange is registered for
    surfacesConstructed,  \* number of `new Surface` evaluations so far
    lastMode,             \* flags of the most recent setMode call
    notif,                \* the notification handled most recently
    last                  \* the operation that ran last, and what it returned

vars == <<dom, activeElement, title, SURFACE, SURFACE_SMOOTHING,
          oldWrapperTextAlign, platform, fullScreen, pending, clickListeners,
          changeListeners, surfacesConstructed, lastMode, notif, last>>

-----------------------------------------------------------------------------
(* Bounds *)

MaxDim == 2       \* setMode dimensions range over 1..MaxDim
MaxInit == 2      \* init() is called at most this many times

-----------------------------------------------------------------------------
(* Constants of the program and of the platform *)

CANVAS_ID == "gjs-canvas"
LOADER_ID == "gjs-loader"
TOGGLE_ID == "gjs-fullscreen-toggle"
WRAPPER_ID == "gjs-canvas-wrapper"

DISABLE_SMOOTHING == 2

\* a canvas created by document.createElement("canvas") is 300 x 150
DefaultCanvasWidth == 300
DefaultCanvasHeight == 150

NULL == "null"            \* JavaScript null, where a string may stand
UNDEFINED == "undefined"  \* JavaScript undefined, where a method may stand

\* JavaScript values passed as `flags`
Num(n) == [t |-> "number", v |-> n]
Str(n) == [t |-> "string", v |-> n]
Undef == [t |-> "undefined", v |-> 0]

Flags == {Undef, Num(DISABLE_SMOOTHING), Num(DISABLE_SMOOTHING + 1), Str(DISABLE_SMOOTHING)}

\* lastMode before the first setMode call
NoMode == [t |-> "none", v |-> 0]

Dims == 1..MaxDim

Titles == {"game"}

FullScreenMethods == <<"requestFullScreen", "mozRequestFullScreen", "webkitRequestFullScreen">>
PointerLockMethods == <<"requestPointerLock", "mozRequestPointerLock", "webkitRequestPointerLock">>
FullScreenProps == <<"fullScreenElement", "mozFullScreenElement", "webkitIsFullScreen", "webkitDisplayingFullscreen">>
ChangeEvents == {"fullscreenchange", "webkitfullscreenchange", "mozfullscreenchange"}

\* The browsers the model runs on: the methods an element exposes, the
\* document property that reports fullscreen, the change events it fires.
Platforms ==
    { [methods |-> {}, prop |-> UNDEFINED, events |-> {}],
      [methods |-> {}, prop |-> "webkitDisplayingFullscreen",
       events |-> {"webkitfullscreenchange"}],
      [methods |-> {"requestFullScreen", "requestPointerLock"},
       prop |-> "fullScreenElement", events |-> {"fullscreenchange"}],
      [methods |-> {"mozRequestFullScreen", "mozRequestPointerLock"},
       prop |-> "mozFullScreenElement", events |-> {"mozfullscreenchange"}],
      [methods |-> {"webkitRequestFullScreen"},
       prop |-> "webkitIsFullScreen",
       events |-> {"webkitfullscreenchange", "fullscreenchange"}] }

-----------------------------------------------------------------------------
(* The document *)

Element(tag, id, parent) ==
    [tag |-> tag, id |-> id, parent |-> parent, width |-> 0, height |-> 0,
     tabindex |-> "", textAlign |-> "", display |-> "",
     requestFullScreen |-> UNDEFINED, requestPointerLock |-> UNDEFINED]

\* document.getElementById: the first element with the id, 0 for null
getElementById(d, id) ==
    IF \E i \in 1..Len(d) : d[i].id = id
    THEN CHOOSE i \in 1..Len(d) :
            d[i].id = id /\ \A j \in 1..(i - 1) : d[j].id # id
    ELSE 0

\* how many elements of the document carry the id
CountId(d, id) == Cardinality({i \in 1..Len(d) : d[i].id = id})

\* whether element a is element b or lies below it
RECURSIVE IsInside(_, _, _)
IsInside(d, a, b) ==
    IF a = b THEN TRUE
    ELSE IF a = 0 THEN FALSE
    ELSE IsInside(d, d[a].parent, b)

\* A document state is [dom, active]; an operation on it yields the new
\* document state and, in field el, the element it returns.

\* document.createElement("canvas") with the id set, appended to body
NewCanvas ==
    [Element("canvas", CANVAS_ID, 0) EXCEPT !.width = DefaultCanvasWidth,
                                            !.height = DefaultCanvasHeight]

\* the end of getCanvas: tabindex is set and the canvas takes the focus
FocusCanvas(d, c) ==
    [dom |-> [d EXCEPT ![c].tabindex = "1"], active |-> c, el |-> c]

CanvasNotLookedUp(D, found) ==
    FocusCanvas(Append(D.dom, NewCanvas), Len(D.dom) + 1)

\* getCanvas once the lookup has answered found
CanvasFound(D, found) ==
    IF found = 0
    THEN FocusCanvas(Append(D.dom, NewCanvas), Len(D.dom) + 1)
    ELSE FocusCanvas(D.dom, found)

getCanvas(D) == CanvasFound(D, getElementById(D.dom, CANVAS_ID))

\* the button and a line break are inserted before the canvas C.el, in the
\* canvas's parent
InsertToggle(C) ==
    [dom |-> Append(Append(C.dom,
                           Element("button", TOGGLE_ID, C.dom[C.el].parent)),
                    Element("br", "", C.dom[C.el].parent)),
     active |-> C.active, el |-> Len(C.dom) + 1]

ToggleFound(D, found) ==
    IF found # 0
    THEN [dom |-> D.dom, active |-> D.active, el |-> found]
    ELSE InsertToggle(getCanvas(D))

getFullScreenToggle(D) == ToggleFound(D, getElementById(D.dom, TOGGLE_ID))

WrapCanvasCopy(C) ==
    [dom |-> Append([Append(C.dom,
                            Element("div", WRAPPER_ID, C.dom[C.el].parent))
                        EXCEPT ![C.el].id = ""],
                    [C.dom[C.el] EXCEPT !.parent = Len(C.dom) + 1]),
     active |-> 0, el |-> Len(C.dom) + 1]

\* the new wrapper is appended to the parent of the canvas C.el, then
\* wrapper.appendChild(canvas) takes the canvas out of its parent and puts
\* it into the wrapper; an element taken out of the document loses the focus
WrapCanvas(C) ==
    [dom |-> [Append(C.dom, Element("div", WRAPPER_ID, C.dom[C.el].parent))
                 EXCEPT ![C.el].parent = Len(C.dom) + 1],
     active |-> 0, el |-> Len(C.dom) + 1]

WrapperFound(D, found) ==
    IF found # 0
    THEN [dom |-> D.dom, active |-> D.active, el |-> found]
    ELSE WrapCanvas(getCanvas(D))

getFullScreenWrapper(D) == WrapperFound(D, getElementById(D.dom, WRAPPER_ID))

-----------------------------------------------------------------------------
(* Fullscreen and pointer lock *)

\* the value of document[p]: truthy exactly while the browser reports
\* fullscreen through that property
DocumentProp(p) == platform.prop = p /\ fullScreen

isFullScreen ==
    \/ DocumentProp(FullScreenProps[1])
    \/ DocumentProp(FullScreenProps[2])
    \/ DocumentProp(FullScreenProps[3])
    \/ DocumentProp(FullScreenProps[4])

\* the value of el[names[i]]: the name of the function found, UNDEFINED when
\* the element has none.  own is the value the module has stored on the
\* element under the unprefixed name names[1].
Method(own, names, i) ==
    IF i = 1 /\ own # UNDEFINED THEN own
    ELSE IF names[i] \in platform.methods THEN names[i]
    ELSE UNDEFINED

\* a || b || c over the three names
FirstMethod(own, names) ==
    IF Method(own, names, 1) # UNDEFINED THEN Method(own, names, 1)
    ELSE IF Method(own, names, 2) # UNDEFINED THEN Method(own, names, 2)
    ELSE Method(own, names, 3)

RequestFullScreenUnchecked(W, m) ==
    [dom |-> [W.dom EXCEPT ![W.el].requestFullScreen = m],
     active |-> W.active, ok |-> TRUE, requests |-> 1]

\* enableFullScreen once the wrapper W.el is at hand and m is the method
\* found: yields the document state, the value returned (ok) and the number
\* of platform fullscreen requests issued (requests)
RequestFullScreen(W, m) ==
    [dom |-> [W.dom EXCEPT ![W.el].requestFullScreen = m],
     active |-> W.active,
     ok |-> IF m = UNDEFINED THEN FALSE ELSE TRUE,
     requests |-> IF m = UNDEFINED THEN 0 ELSE 1]

FullScreenOfOptimistic(W) ==
    RequestFullScreen([W EXCEPT !.dom[W.el].textAlign = "center"],
                      FirstMethod(W.dom[W.el].requestFullScreen,
                                  FullScreenMethods))

FullScreenOf(W) ==
    RequestFullScreen(W, FirstMethod(W.dom[W.el].requestFullScreen,
                                     FullScreenMethods))

enableFullScreen(D) == FullScreenOf(getFullScreenWrapper(D))

\* enablePointerLock: yields the document state and the number of pointer
\* lock requests issued (locks)
RequestPointerLock(W, m) ==
    [dom |-> [W.dom EXCEPT ![W.el].requestPointerLock = m],
     active |-> W.active,
     locks |-> IF m # UNDEFINED THEN 1 ELSE 0]

PointerLockOf(W) ==
    RequestPointerLock(W, FirstMethod(W.dom[W.el].requestPointerLock,
                                      PointerLockMethods))

enablePointerLock(D) == PointerLockOf(getFullScreenWrapper(D))

\* the string a style property holds after `style.textAlign = v`:
\* assigning null clears the property
StyleAssign(v) == IF v = NULL THEN "" ELSE v

\* getFullScreenWrapper().style.textAlign = v, the wrapper being W.el
SetTextAlign(W, v, old, locks) ==
    [dom |-> [W.dom EXCEPT ![W.el].textAlign = StyleAssign(v)],
     active |-> W.active, old |-> old, locks |-> locks]

SaveTextAlignAfter(W, locks) ==
    SetTextAlign(getFullScreenWrapper(W), "center", "center", locks)

\* oldWrapperTextAlign = getFullScreenWrapper().style.textAlign, then the
\* second lookup of the wrapper and the assignment of 'center'
SaveTextAlign(W, locks) ==
    SetTextAlign(getFullScreenWrapper(W), "center", W.dom[W.el].textAlign,
                 locks)

\* the fullscreen branch after enablePointerLock() has yielded P
EnteredFullScreen(P) == SaveTextAlign(getFullScreenWrapper(P), P.locks)

fullScreenChangeNoRestore(D, old) ==
    IF isFullScreen
    THEN EnteredFullScreen(enablePointerLock(D))
    ELSE [dom |-> D.dom, active |-> D.active, old |-> old, locks |-> 0]

\* the handler of the fullscreen-change events: yields the document state,
\* the new oldWrapperTextAlign (old) and the pointer lock requests issued
fullScreenChange(D, old) ==
    IF isFullScreen
    THEN EnteredFullScreen(enablePointerLock(D))
    ELSE SetTextAlign(getFullScreenWrapper(D), old, old, 0)

-----------------------------------------------------------------------------
(* The Surface *)

LooseNotEqual(a, b) == a.v # b.v

\* flags !== DISABLE_SMOOTHING
StrictNotEqual(a, b) == a.t # b.t \/ a.v # b.v

\* new Surface(...) bound to the canvas C.el and its 2d context, smoothed or
\* not; the size it is constructed with belongs to the canvas it creates for
\* itself, which the binding replaces.  n Surfaces were constructed before.
NewSurface(C, smoothing, n) ==
    [dom |-> C.dom, active |-> C.active, n |-> n + 1,
     S |-> << [id |-> n + 1, canvas |-> C.el, context |-> C.el,
               smooth |-> IF smoothing THEN TRUE ELSE FALSE] >>]

getSurfaceUncached(S, D, smoothing, n) ==
    NewSurface(getCanvas(D), smoothing, n)

\* getSurface(): S is SURFACE, smoothing is _SURFACE_SMOOTHING
getSurface(S, D, smoothing, n) ==
    IF S = <<>>
    THEN NewSurface(getCanvas(D), smoothing, n)
    ELSE [dom |-> D.dom, active |-> D.active, n |-> n, S |-> S]

ResizeCanvasSwapped(S, C, n, w, h, smoothing) ==
    [smoothing |-> smoothing,
     G |-> getSurface(S, [dom |-> [C.dom EXCEPT ![C.el].width = h,
                                                ![C.el].height = w],
                          active |-> C.active], smoothing, n)]

\* setMode after getCanvas() has yielded C: the canvas is resized, the flag
\* is stored and getSurface() is returned
ResizeCanvas(S, C, n, w, h, smoothing) ==
    [smoothing |-> smoothing,
     G |-> getSurface(S, [dom |-> [C.dom EXCEPT ![C.el].width = w,
                                                ![C.el].height = h],
                          active |-> C.active], smoothing, n)]

\* setMode(dimensions, flags) with dimensions = [w, h]
setMode(S, D, n, w, h, flags) ==
    ResizeCanvas(S, getCanvas(D), n, w, h,
                 StrictNotEqual(flags, Num(DISABLE_SMOOTHING)))

\* the end of init(): the loader, if any, is hidden
HideLoader(C, loader) ==
    [dom |-> IF loader # 0 THEN [C.dom EXCEPT ![loader].display = "none"]
             ELSE C.dom,
     active |-> C.active]

LoaderOf(C) == HideLoader(C, getElementById(C.dom, LOADER_ID))

initWithoutCanvas(D) ==
    LoaderOf(getFullScreenToggle(getFullScreenWrapper(D)))

\* init(): the document state after it
init(D) == LoaderOf(getCanvas(getFullScreenToggle(getFullScreenWrapper(D))))

FocusComparedAfter(left, C) ==
    [dom |-> C.dom, active |-> C.active, result |-> (C.active = C.el)]

\* document.activeElement == getCanvas(): the left operand is read before
\* getCanvas() runs
FocusCompared(left, C) ==
    [dom |-> C.dom, active |-> C.active, result |-> (left = C.el)]

hasFocus(D) == FocusCompared(D.active, getCanvas(D))

\* _isSmoothingEnabled()
isSmoothingEnabled(smoothing) == (smoothing = TRUE)

-----------------------------------------------------------------------------
(* What an operation returned *)

RetUndefined == [t |-> "undefined", id |-> 0, b |-> FALSE]
RetSurface(S) == [t |-> "surface", id |-> S[1].id, b |-> FALSE]
RetBool(b) == [t |-> "boolean", id |-> 0, b |-> b]
RetOffset == [t |-> "offset", id |-> 0, b |-> FALSE]

\* name: the operation; ret: its return value; fs: what isFullScreen()
\* answered in a change handler; requests, locks: platform fullscreen and
\* pointer lock requests the operation issued; w, h: setMode's dimensions
Last(name, ret, fs, requests, locks) ==
    [name |-> name, ret |-> ret, fs |-> fs, requests |-> requests,
     locks |-> locks, w |-> 0, h |-> 0]

\* notif before the first notification: fs is what isFullScreen() answered,
\* old and before are oldWrapperTextAlign and the wrapper's text alignment
\* when the handler was entered
NoNotif == [handled |-> FALSE, fs |-> FALSE, old |-> NULL, before |-> ""]

Doc == [dom |-> dom, active |-> activeElement]

-----------------------------------------------------------------------------
(* Initial states: the page before the module's first call *)

Wrapper(align) == [Element("div", WRAPPER_ID, 0) EXCEPT !.textAlign = align]
Canvas(parent, w, h) ==
    [Element("canvas", CANVAS_ID, parent) EXCEPT !.width = w, !.height = h]

InitialDocuments ==
    { <<>>,
      <<Canvas(0, DefaultCanvasWidth, DefaultCanvasHeight)>>,
      <<Wrapper("")>>,
      <<Wrapper("left"), Canvas(1, 1, 1)>>,
      <<Wrapper("left"), Canvas(0, DefaultCanvasWidth, DefaultCanvasHeight)>>,
      <<Element("div", "", 0), Canvas(1, 1, 1)>>,
      <<Canvas(0, 1, 1), Element("button", TOGGLE_ID, 0),
        Element("div", LOADER_ID, 0)>> }

Init ==
    /\ dom \in InitialDocuments
    /\ activeElement = 0
    /\ title = ""
    /\ SURFACE = <<>>
    /\ SURFACE_SMOOTHING = TRUE
    /\ oldWrapperTextAlign = NULL
    /\ platform \in Platforms
    /\ fullScreen = FALSE
    /\ pending = {}
    /\ clickListeners = 0
    /\ changeListeners = {}
    /\ surfacesConstructed = 0
    /\ lastMode = NoMode
    /\ notif = NoNotif
    /\ last = Last("none", RetUndefined, FALSE, 0, 0)

-----------------------------------------------------------------------------
(* The module's operations *)

DoInit ==
    /\ clickListeners < MaxInit
    /\ LET R == init(Doc)
       IN /\ dom' = R.dom
          /\ activeElement' = R.active
    /\ clickListeners' = clickListeners + 1
    /\ changeListeners' = changeListeners \cup ChangeEvents
    /\ last' = Last("init", RetUndefined, FALSE, 0, 0)
    /\ UNCHANGED <<title, SURFACE, SURFACE_SMOOTHING, oldWrapperTextAlign,
                   platform, fullScreen, pending, surfacesConstructed,
                   lastMode, notif>>

\* setMode([w, h], flags) for a width, a height and flags of the given sets
SetModeWith(widths, heights, flagses) ==
    \E w \in widths, h \in heights, flags \in flagses :
        /\ LET R == setMode(SURFACE, Doc, surfacesConstructed, w, h, flags)
           IN /\ dom' = R.G.dom
              /\ activeElement' = R.G.active
              /\ SURFACE' = R.G.S
              /\ surfacesConstructed' = R.G.n
              /\ SURFACE_SMOOTHING' = R.smoothing
              /\ last' = [Last("setMode", RetSurface(R.G.S), FALSE, 0, 0)
                            EXCEPT !.w = w, !.h = h]
        /\ lastMode' = flags
        /\ UNCHANGED <<title, oldWrapperTextAlign, platform, fullScreen,
                       pending, clickListeners, changeListeners, notif>>

\* setMode to any resolution, with the flag or without
DoSetMode == SetModeWith(Dims, Dims, {Undef, Num(DISABLE_SMOOTHING)})

\* setMode to the one resolution MaxDim x 1, with any flags
DoSetModeFlags == SetModeWith({MaxDim}, {1}, Flags)

DoSetCaption ==
    \E t \in Titles :
        /\ title' = t
        /\ last' = Last("setCaption", RetUndefined, FALSE, 0, 0)
        /\ UNCHANGED <<dom, activeElement, SURFACE, SURFACE_SMOOTHING,
                       oldWrapperTextAlign, platform, fullScreen, pending,
                       clickListeners, changeListeners, surfacesConstructed,
                       lastMode, notif>>

DoGetSurface ==
    /\ LET R == getSurface(SURFACE, Doc, SURFACE_SMOOTHING, surfacesConstructed)
       IN /\ dom' = R.dom
          /\ activeElement' = R.active
          /\ SURFACE' = R.S
          /\ surfacesConstructed' = R.n
          /\ last' = Last("getSurface", RetSurface(R.S), FALSE, 0, 0)
    /\ UNCHANGED <<title, SURFACE_SMOOTHING, oldWrapperTextAlign, platform,
                   fullScreen, pending, clickListeners, changeListeners,
                   lastMode, notif>>

DoGetCanvasOffset ==
    /\ LET C == getCanvas(Doc)
       IN /\ dom' = C.dom
          /\ activeElement' = C.active
    /\ last' = Last("_getCanvasOffset", RetOffset, FALSE, 0, 0)
    /\ UNCHANGED <<title, SURFACE, SURFACE_SMOOTHING, oldWrapperTextAlign,
                   platform, fullScreen, pending, clickListeners,
                   changeListeners, surfacesConstructed, lastMode, notif>>

DoHasFocus ==
    /\ LET R == hasFocus(Doc)
       IN /\ dom' = R.dom
          /\ activeElement' = R.active
          /\ last' = Last("_hasFocus", RetBool(R.result), FALSE, 0, 0)
    /\ UNCHANGED <<title, SURFACE, SURFACE_SMOOTHING, oldWrapperTextAlign,
                   platform, fullScreen, pending, clickListeners,
                   changeListeners, surfacesConstructed, lastMode, notif>>

DoIsSmoothingEnabled ==
    /\ last' = Last("_isSmoothingEnabled",
                    RetBool(isSmoothingEnabled(SURFACE_SMOOTHING)), FALSE, 0, 0)
    /\ UNCHANGED <<dom, activeElement, title, SURFACE, SURFACE_SMOOTHING,
                   oldWrapperTextAlign, platform, fullScreen, pending,
                   clickListeners, changeListeners, surfacesConstructed,
                   lastMode, notif>>

-----------------------------------------------------------------------------
(* Events *)

\* every click listener init() registered runs enableFullScreen() once;
\* k listeners are still to run
RECURSIVE RunClickListeners(_, _)
ListenerRan(E, k) ==
    [RunClickListeners(E, k) EXCEPT !.ok = E.ok,
                                    !.requests = @ + E.requests]
RunClickListeners(D, k) ==
    IF k = 0
    THEN [dom |-> D.dom, active |-> D.active, ok |-> FALSE, requests |-> 0]
    ELSE ListenerRan(enableFullScreen(D), k - 1)

\* the user clicks the toggle; the click may move the focus to the button
ToggleClick ==
    /\ clickListeners > 0
    /\ \E focused \in BOOLEAN :
         LET t == getElementById(dom, TOGGLE_ID)
             D == [dom |-> dom, active |-> IF focused THEN t ELSE activeElement]
             R == RunClickListeners(D, clickListeners)
         IN /\ dom' = R.dom
            /\ activeElement' = R.active
            /\ last' = Last("click", RetBool(R.ok), FALSE, R.requests, 0)
    /\ UNCHANGED <<title, SURFACE, SURFACE_SMOOTHING, oldWrapperTextAlign,
                   platform, fullScreen, pending, clickListeners,
                   changeListeners, surfacesConstructed, lastMode, notif>>

\* the browser dispatches a queued fullscreen-change event to the handler
FullScreenChange ==
    \E e \in pending \cap changeListeners :
        /\ pending' = pending \ {e}
        /\ LET R == fullScreenChange(Doc, oldWrapperTextAlign)
               w == getElementById(dom, WRAPPER_ID)
           IN /\ dom' = R.dom
              /\ activeElement' = R.active
              /\ oldWrapperTextAlign' = R.old
              /\ last' = Last("fullScreenChange", RetUndefined, isFullScreen,
                              0, R.locks)
              /\ notif' = [handled |-> TRUE, fs |-> isFullScreen,
                            old |-> oldWrapperTextAlign,
                            before |-> dom[w].textAlign]
        /\ UNCHANGED <<title, SURFACE, SURFACE_SMOOTHING, platform, fullScreen,
                       clickListeners, changeListeners, surfacesConstructed,
                       lastMode>>

\* a queued event nobody listens for is dropped
Undelivered ==
    \E e \in pending \ changeListeners :
        /\ pending' = pending \ {e}
        /\ last' = Last("undelivered", RetUndefined, FALSE, 0, 0)
        /\ UNCHANGED <<dom, activeElement, title, SURFACE, SURFACE_SMOOTHING,
                       oldWrapperTextAlign, platform, fullScreen,
                       clickListeners, changeListeners, surfacesConstructed,
                       lastMode, notif>>

\* the browser enters or leaves fullscreen (granting a request, or the user
\* pressing escape) and queues the change events it fires
PlatformToggle ==
    /\ platform.prop # UNDEFINED
    /\ pending = {}
    /\ fullScreen' = ~fullScreen
    /\ pending' = platform.events
    /\ last' = Last("platform", RetUndefined, FALSE, 0, 0)
    /\ UNCHANGED <<dom, activeElement, title, SURFACE, SURFACE_SMOOTHING,
                   oldWrapperTextAlign, platform, clickListeners,
                   changeListeners, surfacesConstructed, lastMode, notif>>

\* the user moves the input focus to the page or to the toggle
UserFocus ==
    \E e \in {0, getElementById(dom, TOGGLE_ID)} :
        /\ e # activeElement
        /\ activeElement' = e
        /\ last' = Last("focus", RetUndefined, FALSE, 0, 0)
        /\ UNCHANGED <<dom, title, SURFACE, SURFACE_SMOOTHING,
                       oldWrapperTextAlign, platform, fullScreen, pending,
                       clickListeners, changeListeners, surfacesConstructed,
                       lastMode, notif>>

Next ==
    \/ DoInit
    \/ DoSetModeFlags
    \/ DoSetCaption
    \/ DoGetSurface
    \/ DoGetCanvasOffset
    \/ DoHasFocus
    \/ DoIsSmoothingEnabled
    \/ ToggleClick
    \/ FullScreenChange
    \/ Undelivered
    \/ PlatformToggle
    \/ UserFocus

\* Every operation and event, on an empty page in a browser that fires the
\* prefixed and the unprefixed change event.
InitEmptyPage ==
    /\ Init
    /\ dom = <<>>
    /\ platform.events = {"webkitfullscreenchange", "fullscreenchange"}

Spec == InitEmptyPage /\ [][Next]_vars

\* The display operations with every resolution, on every initial page, in
\* a browser that never enters fullscreen.
InitDisplay == Init /\ platform.events = {"fullscreenchange"}

NextDisplay ==
    \/ DoInit
    \/ DoSetMode
    \/ DoSetCaption
    \/ DoGetSurface
    \/ DoGetCanvasOffset
    \/ DoHasFocus
    \/ DoIsSmoothingEnabled
    \/ ToggleClick
    \/ UserFocus

SpecDisplay == InitDisplay /\ [][NextDisplay]_vars

\* The fullscreen machinery on every initial page and every browser; the
\* resolution is never set.
NextFullScreen ==
    \/ DoInit
    \/ DoSetCaption
    \/ DoGetSurface
    \/ ToggleClick
    \/ FullScreenChange
    \/ Undelivered
    \/ PlatformToggle
    \/ UserFocus

SpecFullScreen == Init /\ [][NextFullScreen]_vars

-----------------------------------------------------------------------------
(* Properties *)

TheCanvas == getElementById(dom, CANVAS_ID)
TheWrapper == getElementById(dom, WRAPPER_ID)

\* the wrapper's style.textAlign in document d, NULL while there is no wrapper
TextAlignOf(d) ==
    IF getElementById(d, WRAPPER_ID) = 0 THEN NULL
    ELSE d[getElementById(d, WRAPPER_ID)].textAlign

\* C1: the Surface is constructed at most once, and every getSurface() and
\* setMode() call returns that first instance, whatever ran before.
C1_SurfaceSingleton ==
    /\ surfacesConstructed <= 1
    /\ SURFACE # <<>> => SURFACE[1].id = 1
    /\ last.ret.t = "surface" => (SURFACE # <<>> /\ last.ret.id = 1)

\* a getSurface() call answered after init, a setMode and a notification
C1_Witness ==
    /\ last.name = "getSurface"
    /\ last.ret.id = 1
    /\ lastMode # NoMode
    /\ clickListeners > 0
    /\ notif.handled

\* C2: a getSurface() that follows setMode(.., DISABLE_SMOOTHING) yields a
\* Surface with smoothing disabled, one that follows setMode without the flag
\* a Surface with smoothing enabled, also when the Surface existed before.
C2_SmoothingFollowsMode ==
    last.name = "getSurface" =>
        /\ lastMode = Num(DISABLE_SMOOTHING) => SURFACE[1].smooth = FALSE
        /\ lastMode = Undef => SURFACE[1].smooth = TRUE

\* C3: when setMode([w, h]) returns, the canvas is w wide and h high; no
\* other operation changes the width or height of the canvas.
C3_SetModeSizesCanvas ==
    [][ /\ last'.name = "setMode" =>
            /\ dom'[TheCanvas'].width = last'.w
            /\ dom'[TheCanvas'].height = last'.h
        /\ (last'.name # "setMode" /\ TheCanvas # 0) =>
            /\ dom'[TheCanvas].width = dom[TheCanvas].width
            /\ dom'[TheCanvas].height = dom[TheCanvas].height ]_vars

\* setMode to a resolution that is not square, after init and with the
\* Surface in place
C3_Witness ==
    /\ last.name = "setMode"
    /\ last.w # last.h
    /\ dom[TheCanvas].width = last.w
    /\ dom[TheCanvas].height = last.h
    /\ clickListeners > 0

\* C4: the document never holds two wrappers, two toggles or two canvases,
\* and once init() has run it holds exactly one of each.
C4_InitIdempotent ==
    /\ CountId(dom, WRAPPER_ID) <= 1
    /\ CountId(dom, TOGGLE_ID) <= 1
    /\ CountId(dom, CANVAS_ID) <= 1
    /\ clickListeners >= 1 =>
        /\ CountId(dom, WRAPPER_ID) = 1
        /\ CountId(dom, TOGGLE_ID) = 1
        /\ CountId(dom, CANVAS_ID) = 1

\* init() has run twice and the Surface exists
C4_Witness ==
    /\ last.name = "init"
    /\ clickListeners >= 2
    /\ SURFACE # <<>>
    /\ CountId(dom, CANVAS_ID) = 1

\* C5: a click while the wrapper has no fullscreen request method returns
\* false, issues no request and leaves the fullscreen status, the wrapper's
\* text alignment, the saved alignment, the smoothing flag and the Surface
\* as they were.
C5_NoFullScreenApi ==
    [][ ( /\ last'.name = "click"
          /\ TheWrapper # 0
          /\ \A i \in 1..3 :
                Method(dom[TheWrapper].requestFullScreen,
                       FullScreenMethods, i) = UNDEFINED )
        => /\ last'.ret.b = FALSE
           /\ last'.requests = 0
           /\ fullScreen' = fullScreen
           /\ TextAlignOf(dom') = TextAlignOf(dom)
           /\ oldWrapperTextAlign' = oldWrapperTextAlign
           /\ SURFACE_SMOOTHING' = SURFACE_SMOOTHING
           /\ SURFACE' = SURFACE ]_vars

\* a failed request made in fullscreen, with an alignment saved
C5_Witness ==
    /\ last.name = "click"
    /\ last.ret.b = FALSE
    /\ last.requests = 0
    /\ fullScreen
    /\ oldWrapperTextAlign # NULL
    /\ SURFACE # <<>>

\* C6: a notification handled in fullscreen with no alignment saved yet
\* centres the wrapper's text and saves the alignment it had before.
C6_EnterCentersAndSaves ==
    (last.name = "fullScreenChange" /\ notif.fs /\ notif.old = NULL) =>
        /\ TextAlignOf(dom) = "center"
        /\ oldWrapperTextAlign = notif.before

\* the first entry, of a wrapper aligned left
C6_Witness ==
    /\ last.name = "fullScreenChange"
    /\ notif.fs
    /\ notif.old = NULL
    /\ notif.before = "left"
    /\ oldWrapperTextAlign = "left"

\* C7: the exit notification that follows an entry notification handled with
\* no alignment saved gives the wrapper the alignment it had before entry.
C7_ExitRestores ==
    [][ ( /\ last'.name = "fullScreenChange"
          /\ ~last'.fs
          /\ notif.handled /\ notif.fs /\ notif.old = NULL )
        => TextAlignOf(dom') = notif.before ]_vars

\* an exit notification has turned the centred wrapper back to left
C7_Witness ==
    /\ last.name = "fullScreenChange"
    /\ ~notif.fs
    /\ notif.before = "center"
    /\ TextAlignOf(dom) = "left"

\* C8: _hasFocus() returns whether the canvas held the focus when it was
\* called.
C8_HasFocus ==
    [][ last'.name = "_hasFocus" =>
            last'.ret.b = (TheCanvas # 0 /\ activeElement = TheCanvas) ]_vars

\* the query answered false although the canvas existed: the focus was
\* elsewhere
C8_Witness ==
    /\ last.name = "_hasFocus"
    /\ last.ret.b = FALSE
    /\ clickListeners > 0
    /\ activeElement = TheCanvas

\* C9: the smoothing flag, and what _isSmoothingEnabled() returns, is true
\* before any setMode and afterwards false exactly when the flags of the
\* most recent setMode were the number DISABLE_SMOOTHING.
C9_SmoothingQuery ==
    /\ isSmoothingEnabled(SURFACE_SMOOTHING)
         = ~(lastMode.t = "number" /\ lastMode.v = DISABLE_SMOOTHING)
    /\ last.name = "_isSmoothingEnabled" =>
         last.ret.b = ~(lastMode.t = "number" /\ lastMode.v = DISABLE_SMOOTHING)

\* the query after setMode with the string "2" and a notification
C9_Witness ==
    /\ last.name = "_isSmoothingEnabled"
    /\ lastMode = Str(DISABLE_SMOOTHING)
    /\ last.ret.b = TRUE
    /\ notif.handled

\* C10: a click changes neither the wrapper's text alignment nor the saved
\* alignment and requests no pointer lock; the alignment is saved, the text
\* centred and pointer lock requested only by a notification handled in
\* fullscreen.
C10_ConfirmedByNotification ==
    [][ /\ last'.name = "click" =>
            /\ TextAlignOf(dom') = TextAlignOf(dom)
            /\ oldWrapperTextAlign' = oldWrapperTextAlign
            /\ last'.locks = 0
        /\ ( \/ oldWrapperTextAlign' # oldWrapperTextAlign
             \/ last'.locks > 0
             \/ (TextAlignOf(dom') = "center" /\ TextAlignOf(dom) # "center") )
           => (last'.name = "fullScreenChange" /\ isFullScreen) ]_vars

\* a request was issued and returned true; nothing is centred or saved
C10_Witness ==
    /\ last.name = "click"
    /\ last.ret.b = TRUE
    /\ last.requests > 0
    /\ ~fullScreen
    /\ oldWrapperTextAlign = NULL
    /\ TextAlignOf(dom) = "left"

\* C11: whenever the Surface exists, the canvas it is bound to, and whose
\* context it holds, is the one element that carries the canvas id.
C11_SurfaceBoundToCanvas ==
    SURFACE # <<>> =>
        /\ CountId(dom, CANVAS_ID) = 1
        /\ SURFACE[1].canvas = TheCanvas
        /\ SURFACE[1].context = TheCanvas

\* the Surface was there before the first init(), which created the wrapper
\* and moved the canvas into it
C11_Witness ==
    /\ last.name = "init"
    /\ clickListeners = 1
    /\ SURFACE # <<>>
    /\ dom[1].id # WRAPPER_ID
    /\ dom[TheCanvas].parent = TheWrapper

\* C12: a notification handled in fullscreen directly after another one
\* handled in fullscreen, with an alignment already saved, leaves the saved
\* alignment as it is.
C12_SavedAlignmentKept ==
    [][ ( /\ last'.name = "fullScreenChange"
          /\ isFullScreen
          /\ notif.handled /\ notif.fs
          /\ oldWrapperTextAlign # NULL )
        => oldWrapperTextAlign' = oldWrapperTextAlign ]_vars

\* C13: a notification handled out of fullscreen while no alignment was ever
\* saved leaves the wrapper's text alignment as it was.
C13_ExitBeforeEntryKeepsAlignment ==
    (last.name = "fullScreenChange" /\ ~notif.fs /\ notif.old = NULL) =>
        TextAlignOf(dom) = notif.before

\* C14: a click on the toggle, where a fullscreen request method exists,
\* issues exactly one platform fullscreen request.
C14_OneRequestPerClick ==
    (last.name = "click" /\ last.ret.b = TRUE) => last.requests = 1

\* C15: init, setMode, a getSurface() that constructs the Surface, the
\* canvas-offset query and the focus query return with the canvas focusable
\* and focused; a getSurface() that finds the Surface cached, the smoothing
\* query and setCaption leave the focus where it was.
C15_CanvasFocused ==
    [][ /\ ( \/ last'.name \in {"init", "setMode", "_getCanvasOffset",
                                "_hasFocus"}
             \/ (last'.name = "getSurface" /\ SURFACE = <<>>) )
           => /\ TheCanvas' # 0
              /\ activeElement' = TheCanvas'
              /\ dom'[TheCanvas'].tabindex = "1"
        /\ ( \/ (last'.name = "getSurface" /\ SURFACE # <<>>)
             \/ last'.name \in {"_isSmoothingEnabled", "setCaption"} )
           => activeElement' = activeElement ]_vars

\* the first init() found the toggle in the page, created the wrapper, moved
\* the canvas into it and left the canvas focused
C15_Witness ==
    /\ last.name = "init"
    /\ clickListeners = 1
    /\ dom[1].id # WRAPPER_ID
    /\ dom[TheCanvas].parent = TheWrapper
    /\ TheWrapper > getElementById(dom, TOGGLE_ID)
    /\ activeElement = TheCanvas

\* C16: when init() has returned, the canvas lies inside the wrapper.
C16_CanvasInsideWrapper ==
    last.name = "init" => IsInside(dom, TheCanvas, TheWrapper)

====
